---------------------------- MODULE Spec2Model ----------------------------
(***************************************************************************)
(* A model of two units of Redpanda Connect:                               *)
(*                                                                         *)
(*   - InitEnterpriseCLI (package cli): registers the lifecycle hooks on   *)
(*     the engine, runs the engine (RunCLIToCode), reports the terminal    *)
(*     error, calls TriggerEventStopped and Close on the topic logger and  *)
(*     exits.  Specification Spec (and FairSpec for liveness).             *)
(*   - ollamaCompletionProcessor.Process (package ollama): resolves the    *)
(*     prompts of one message, calls the Ollama chat backend and replaces  *)
(*     the payload.  Specification SpecProc (one worker; FairSpecProc for  *)
(*     liveness) and SpecConc (two workers on the same processor).         *)
(*                                                                         *)
(* The engine (benthos), the Ollama client and the bloblang interpolation  *)
(* are external: they are the environment, which picks hook invocations,   *)
(* the engine's result, template results and backend responses.  The topic *)
(* logger (package enterprise) is modelled from its contract.              *)
(***************************************************************************)
EXTENDS Integers, Sequences, FiniteSets, TLC

VARIABLES
    \* ---- InitEnterpriseCLI ----
    pc,             \* position of the main goroutine in InitEnterpriseCLI
    err,            \* err returned by RunCLIToCode
    exitCode,       \* exitCode returned by RunCLIToCode
    fbLogger,       \* the captured *service.Logger (nil: NoLogger)
    rpLogger,       \* the state of the TopicLogger
    hookCalls,      \* how often the engine has fired each hook
    engineHookErrs, \* the errors hooks have returned to the engine
    fbLog,          \* what was logged through a service.Logger: <<logger, text>>
    stderrLog,      \* the lines written to os.Stderr
    trace,          \* the shutdown steps taken, in order
    exitStatus,     \* the code given to os.Exit (NotExited before)
    closeCtx,       \* the context handed to rpLogger.Close
    sinkHangs,      \* whether the secondary sink never finishes releasing
    lock,           \* who holds the topic logger's sink: "free", "main", a writer
    writer,         \* each tee-log writer's state
    writesLeft,     \* log records the engine may still emit
    \* ---- ollamaCompletionProcessor ----
    o,              \* the processor: model, userPrompt, systemPrompt
    call,           \* each worker's Process call: position, locals, result
    msgsLeft        \* messages the engine may still hand to Process

cliVars == <<pc, err, exitCode, fbLogger, rpLogger, hookCalls, engineHookErrs,
             fbLog, stderrLog, trace, exitStatus, closeCtx, sinkHangs, lock,
             writer, writesLeft>>
procVars == <<o, call, msgsLeft>>
vars == <<cliVars, procVars>>

-----------------------------------------------------------------------------
(* Bounds *)

MaxHookCalls == 2       \* times the engine fires each hook in one run
MaxWrites == 2          \* log records the engine emits in one run
MaxExitCode == 2        \* the engine's exit codes are 0..MaxExitCode
MaxMsgs == 2            \* messages the engine hands to Process
MaxChunks == 2          \* responses the backend delivers for one request

-----------------------------------------------------------------------------
(* Values *)

\* A Go error value; a nil error is NilErr.  Error(e) is e.Error().
NilErr == [nil |-> TRUE, msg |-> ""]
MkErr(m) == [nil |-> FALSE, msg |-> m]
Error(e) == e.msg

EngineErrs == {MkErr("engine failed"), MkErr("lint failed")}
InitOutputErrs == {MkErr("bad redpanda config")}
CloseErrs == {MkErr("close failed")}

NoLogger == "nil"
Loggers == {"L1", "L2"}
NoSummary == "nil"
Summaries == {"S1", "S2"}
Writers == {"w1", "w2"}
ExitCodes == 0..MaxExitCode
NotExited == <<>>

\* context.Background(): never cancelled, no deadline.
Background == [kind |-> "background", deadline |-> FALSE]
NoCtx == [kind |-> "none", deadline |-> FALSE]
\* Whether a context can ever become done.
CtxCanBeDone(ctx) == ctx.deadline

FinalPc == {"exited", "done"}

-----------------------------------------------------------------------------
(* The TopicLogger (enterprise.NewTopicLogger), from its contract *)

NewTopicLogger ==
    [fallbackLogger |-> NoLogger,
     streamSummary  |-> NoSummary,
     output         |-> "unset",     \* "unset", "active" or "failed"
     stopped        |-> <<>>,        \* the errors given to TriggerEventStopped
     sinkEvents     |-> <<>>,        \* the terminal events the sink received
     closeCalls     |-> 0,
     closeErr       |-> NilErr,      \* what the last Close returned
     closed         |-> FALSE]

\* setFallbackLogger: a once-only transition guarded by a presence check.
SetFallbackLogger(rp, l) ==
    IF rp.fallbackLogger = NoLogger THEN [rp EXCEPT !.fallbackLogger = l] ELSE rp

\* setStreamSummary: a once-only transition guarded by a presence check.
SetStreamSummary(rp, s) ==
    IF rp.streamSummary = NoSummary THEN [rp EXCEPT !.streamSummary = s] ELSE rp

\* initOutput: activates the secondary sink, or fails and leaves it unusable.
\* r is the outcome of connecting the sink; it is what the call returns.
InitOutputFromParsed(rp, r) ==
    [rp EXCEPT !.output = IF r.nil THEN "active" ELSE "failed"]

\* The secondary sink accepts records and events.
SinkUsable(rp) == rp.output = "active" /\ ~rp.closed

\* Writers, the terminal event and the release of the sink exclude each other.
SinkFree == lock = "free"

\* close returns once the sink has released its resources or the supplied
\* context is done; it is a no-op when the sink was never activated.
CloseCanReturn(rp, ctx, hangs) ==
    rp.output # "active" \/ ~hangs \/ CtxCanBeDone(ctx)

-----------------------------------------------------------------------------
(* InitEnterpriseCLI: the hooks the engine fires during RunCLIToCode *)

\* fbLogger = l
CaptureLogger(old, l) == l

\* CLIOptOnLoggerInit(func(l) { fbLogger = l; rpLogger.SetFallbackLogger(l) })
OnLoggerInit(l) ==
    /\ pc = "running"
    /\ hookCalls.loggerInit < MaxHookCalls
    /\ fbLogger' = CaptureLogger(fbLogger, l)
    /\ rpLogger' = SetFallbackLogger(rpLogger, l)
    /\ hookCalls' = [hookCalls EXCEPT !.loggerInit = @ + 1]
    /\ UNCHANGED procVars
    /\ UNCHANGED <<pc, err, exitCode, engineHookErrs, fbLog, stderrLog, trace,
                   exitStatus, closeCtx, sinkHangs, lock, writer, writesLeft>>

\* What the on-config-parsed hook returns to the engine, given what
\* InitOutputFromParsed returned: return rpLogger.InitOutputFromParsed(...)
ConfigParseHookResult(r) == r

\* CLIOptOnConfigParse(func(fn) error { return rpLogger.InitOutputFromParsed(...) })
OnConfigParse(r) ==
    /\ pc = "running"
    /\ hookCalls.configParse < MaxHookCalls
    /\ rpLogger' = InitOutputFromParsed(rpLogger, r)
    /\ engineHookErrs' =
         IF ConfigParseHookResult(r).nil THEN engineHookErrs
         ELSE engineHookErrs \cup {ConfigParseHookResult(r)}
    /\ hookCalls' = [hookCalls EXCEPT !.configParse = @ + 1]
    /\ UNCHANGED procVars
    /\ UNCHANGED <<pc, err, exitCode, fbLogger, fbLog, stderrLog, trace,
                   exitStatus, closeCtx, sinkHangs, lock, writer, writesLeft>>

\* CLIOptOnStreamStart(func(s) error { rpLogger.SetStreamSummary(s); return nil })
OnStreamStart(s) ==
    /\ pc = "running"
    /\ hookCalls.streamStart < MaxHookCalls
    /\ rpLogger' = SetStreamSummary(rpLogger, s)
    /\ hookCalls' = [hookCalls EXCEPT !.streamStart = @ + 1]
    /\ UNCHANGED procVars
    /\ UNCHANGED <<pc, err, exitCode, fbLogger, engineHookErrs, fbLog, stderrLog,
                   trace, exitStatus, closeCtx, sinkHangs, lock, writer, writesLeft>>

\* CLIOptAddTeeLogger(slog.New(rpLogger)): a log record of the engine reaches
\* the topic logger, which starts forwarding it to the secondary sink.
TeeWriteBegin(w) ==
    /\ pc \notin FinalPc
    /\ writer[w] = "idle"
    /\ writesLeft > 0
    /\ SinkUsable(rpLogger)
    /\ SinkFree
    /\ lock' = w
    /\ writer' = [writer EXCEPT ![w] = "writing"]
    /\ writesLeft' = writesLeft - 1
    /\ UNCHANGED procVars
    /\ UNCHANGED <<pc, err, exitCode, fbLogger, rpLogger, hookCalls, engineHookErrs,
                   fbLog, stderrLog, trace, exitStatus, closeCtx, sinkHangs>>

\* The record has been handed to the sink.
TeeWriteEnd(w) ==
    /\ writer[w] = "writing"
    /\ lock' = IF lock = w THEN "free" ELSE lock
    /\ writer' = [writer EXCEPT ![w] = "idle"]
    /\ UNCHANGED procVars
    /\ UNCHANGED <<pc, err, exitCode, fbLogger, rpLogger, hookCalls, engineHookErrs,
                   fbLog, stderrLog, trace, exitStatus, closeCtx, sinkHangs,
                   writesLeft>>

\* A record that arrives while the sink is not usable is not forwarded.
TeeWriteDrop(w) ==
    /\ pc \notin FinalPc
    /\ writer[w] = "idle"
    /\ writesLeft > 0
    /\ ~SinkUsable(rpLogger)
    /\ writesLeft' = writesLeft - 1
    /\ UNCHANGED procVars
    /\ UNCHANGED <<pc, err, exitCode, fbLogger, rpLogger, hookCalls, engineHookErrs,
                   fbLog, stderrLog, trace, exitStatus, closeCtx, sinkHangs, lock,
                   writer>>

-----------------------------------------------------------------------------
(* InitEnterpriseCLI: the main goroutine, after the hooks are registered *)

\* exitCode, err := service.RunCLIToCode(context.Background(), opts...)
\* The engine's run ends with any exit code and any terminal error.
RunCLIToCode(code, e) ==
    /\ pc = "running"
    /\ exitCode' = code
    /\ err' = e
    /\ pc' = "returned"
    /\ trace' = Append(trace, "RunCLIToCode.return")
    /\ UNCHANGED procVars
    /\ UNCHANGED <<fbLogger, rpLogger, hookCalls, engineHookErrs, fbLog, stderrLog,
                   exitStatus, closeCtx, sinkHangs, lock, writer, writesLeft>>

\* if err != nil
ShouldReport(e) == ~e.nil

\* A slip: the fallback logger is ignored.
ReportChannelStderrOnly(fb) == "stderr"

\* if fbLogger != nil { fbLogger.Error(...) } else { fmt.Fprintln(os.Stderr, ...) }
ReportChannel(fb) == IF fb # NoLogger THEN "fbLogger" ELSE "stderr"

\* The if statement after RunCLIToCode: the terminal error is reported.
ReportError ==
    /\ pc = "returned"
    /\ pc' = "reported"
    /\ IF ShouldReport(err)
         THEN /\ fbLog' = IF ReportChannel(fbLogger) = "fbLogger"
                             THEN Append(fbLog, <<fbLogger, Error(err)>>)
                             ELSE fbLog
              /\ stderrLog' = IF ReportChannel(fbLogger) = "stderr"
                                 THEN Append(stderrLog, Error(err))
                                 ELSE stderrLog
              /\ trace' = Append(trace, "report")
         ELSE UNCHANGED <<fbLog, stderrLog, trace>>
    /\ UNCHANGED procVars
    /\ UNCHANGED <<err, exitCode, fbLogger, rpLogger, hookCalls, engineHookErrs,
                   exitStatus, closeCtx, sinkHangs, lock, writer, writesLeft>>

\* A slip: TriggerEventStopped called only inside the if err != nil block.
TriggerEventStoppedOnlyOnError ==
    /\ pc = "reported"
    /\ SinkFree
    /\ IF err.nil
         THEN /\ pc' = "stopped"
              /\ UNCHANGED <<lock, rpLogger, trace>>
         ELSE /\ lock' = "main"
              /\ pc' = "emitting"
              /\ rpLogger' = [rpLogger EXCEPT !.stopped = Append(@, err)]
              /\ trace' = Append(trace, "TriggerEventStopped")
    /\ UNCHANGED procVars
    /\ UNCHANGED <<err, exitCode, fbLogger, hookCalls, engineHookErrs, fbLog,
                   stderrLog, exitStatus, closeCtx, sinkHangs, writer, writesLeft>>

\* A slip: a run that ended with exit code 0 is taken for a clean stop.
TriggerEventStoppedNilOnZero ==
    /\ pc = "reported"
    /\ SinkFree
    /\ lock' = "main"
    /\ pc' = "emitting"
    /\ rpLogger' = [rpLogger EXCEPT !.stopped =
                       Append(@, IF exitCode = 0 THEN NilErr ELSE err)]
    /\ trace' = Append(trace, "TriggerEventStopped")
    /\ UNCHANGED procVars
    /\ UNCHANGED <<err, exitCode, fbLogger, hookCalls, engineHookErrs, fbLog,
                   stderrLog, exitStatus, closeCtx, sinkHangs, writer, writesLeft>>

\* rpLogger.TriggerEventStopped(err): the call; it takes the sink.
TriggerEventStopped ==
    /\ pc = "reported"
    /\ SinkFree
    /\ lock' = "main"
    /\ pc' = "emitting"
    /\ rpLogger' = [rpLogger EXCEPT !.stopped = Append(@, err)]
    /\ trace' = Append(trace, "TriggerEventStopped")
    /\ UNCHANGED procVars
    /\ UNCHANGED <<err, exitCode, fbLogger, hookCalls, engineHookErrs, fbLog,
                   stderrLog, exitStatus, closeCtx, sinkHangs, writer, writesLeft>>

\* TriggerEventStopped returns: the terminal event went to the sink, if usable.
TriggerEventStoppedReturn ==
    /\ pc = "emitting"
    /\ lock' = "free"
    /\ pc' = "stopped"
    /\ rpLogger' = IF SinkUsable(rpLogger)
                      THEN [rpLogger EXCEPT !.sinkEvents =
                                Append(@, rpLogger.stopped[Len(rpLogger.stopped)])]
                      ELSE rpLogger
    /\ trace' = Append(trace, "TriggerEventStopped.return")
    /\ UNCHANGED procVars
    /\ UNCHANGED <<err, exitCode, fbLogger, hookCalls, engineHookErrs, fbLog,
                   stderrLog, exitStatus, closeCtx, sinkHangs, writer, writesLeft>>

\* The context given to Close: context.Background()
CloseContext == Background

\* A slip: Close called without waiting for TriggerEventStopped.
CloseBeforeStopped ==
    /\ pc \in {"reported", "stopped"}
    /\ SinkFree
    /\ lock' = "main"
    /\ pc' = "inClose"
    /\ closeCtx' = CloseContext
    /\ rpLogger' = [rpLogger EXCEPT !.closeCalls = @ + 1]
    /\ trace' = Append(trace, "Close")
    /\ UNCHANGED procVars
    /\ UNCHANGED <<err, exitCode, fbLogger, hookCalls, engineHookErrs, fbLog,
                   stderrLog, exitStatus, sinkHangs, writer, writesLeft>>

\* _ = rpLogger.Close(context.Background()): the call; it takes the sink.
Close ==
    /\ pc = "stopped"
    /\ SinkFree
    /\ lock' = "main"
    /\ pc' = "inClose"
    /\ closeCtx' = CloseContext
    /\ rpLogger' = [rpLogger EXCEPT !.closeCalls = @ + 1]
    /\ trace' = Append(trace, "Close")
    /\ UNCHANGED procVars
    /\ UNCHANGED <<err, exitCode, fbLogger, hookCalls, engineHookErrs, fbLog,
                   stderrLog, exitStatus, sinkHangs, writer, writesLeft>>

\* Close returns e, which the caller discards.
CloseReturn(e) ==
    /\ pc = "inClose"
    /\ CloseCanReturn(rpLogger, closeCtx, sinkHangs)
    /\ lock' = "free"
    /\ pc' = "closed"
    /\ rpLogger' = [rpLogger EXCEPT !.closed = TRUE, !.closeErr = e]
    /\ trace' = Append(trace, "Close.return")
    /\ UNCHANGED procVars
    /\ UNCHANGED <<err, exitCode, fbLogger, hookCalls, engineHookErrs, fbLog,
                   stderrLog, exitStatus, closeCtx, sinkHangs, writer, writesLeft>>

\* if exitCode != 0
ShouldExit(code) == code # 0

\* A slip: every failure exits with code 1.
OsExitAlwaysOne(code) == <<1>>

\* os.Exit(exitCode): the status the process terminates with.
OsExit(code) == <<code>>

\* A slip: an error of Close makes a run that ended with code 0 exit with 1.
ExitFailsOnCloseError ==
    /\ pc = "closed"
    /\ IF ShouldExit(exitCode) \/ ~rpLogger.closeErr.nil
         THEN /\ exitStatus' = IF ShouldExit(exitCode) THEN OsExit(exitCode)
                                                       ELSE OsExit(1)
              /\ pc' = "exited"
              /\ trace' = Append(trace, "os.Exit")
         ELSE /\ exitStatus' = exitStatus
              /\ pc' = "done"
              /\ trace' = Append(trace, "return")
    /\ UNCHANGED procVars
    /\ UNCHANGED <<err, exitCode, fbLogger, rpLogger, hookCalls, engineHookErrs,
                   fbLog, stderrLog, closeCtx, sinkHangs, lock, writer, writesLeft>>

\* if exitCode != 0 { os.Exit(exitCode) }; otherwise the function returns.
Exit ==
    /\ pc = "closed"
    /\ IF ShouldExit(exitCode)
         THEN /\ exitStatus' = OsExit(exitCode)
              /\ pc' = "exited"
              /\ trace' = Append(trace, "os.Exit")
         ELSE /\ exitStatus' = exitStatus
              /\ pc' = "done"
              /\ trace' = Append(trace, "return")
    /\ UNCHANGED procVars
    /\ UNCHANGED <<err, exitCode, fbLogger, rpLogger, hookCalls, engineHookErrs,
                   fbLog, stderrLog, closeCtx, sinkHangs, lock, writer, writesLeft>>

-----------------------------------------------------------------------------
(* ollamaCompletionProcessor: values *)

\* A Go string is its bytes; these are the texts of the model, as bytes.
StrEmpty == <<>>
StrHello == <<104, 101, 108, 108, 111>>              \* "hello"
StrHiThere == <<104, 105, 32, 116, 104, 101, 114, 101>>  \* "hi there"
StrOk == <<111, 107>>                                \* "ok"
StrSys == <<98, 101, 32, 98, 114, 105, 101, 102>>    \* "be brief"
StrAsk == <<97, 115, 107>>                           \* "ask"
StrTopic == <<116, 101, 97>>                         \* "tea"

\* Payloads: valid and invalid UTF-8.
Payloads ==
    { StrHello,                 \* ASCII
      StrEmpty,                 \* empty
      <<195, 169>>,             \* U+00E9, two bytes
      <<255, 254>>,             \* no UTF-8 sequence starts with FF
      <<104, 195>>,             \* a truncated two-byte sequence
      <<237, 160, 128>> }       \* a UTF-16 surrogate, not valid UTF-8

\* Metadata of a message: the value of key "topic", or none.
NoMeta == [has |-> FALSE, topic |-> StrEmpty]
Metas == {NoMeta, [has |-> TRUE, topic |-> StrTopic]}

\* A message: raw bytes with metadata, or a structured value that cannot be
\* serialised to bytes.
Messages ==
    [payload : Payloads, meta : {NoMeta}, structuredBad : {FALSE}]
    \cup [payload : {StrHello}, meta : Metas, structuredBad : {FALSE}]
    \cup {[payload |-> StrEmpty, meta |-> NoMeta, structuredBad |-> TRUE]}

NoMsg == [payload |-> StrEmpty, meta |-> NoMeta, structuredBad |-> FALSE]

ErrInvalidUTF8 == MkErr("message payload contained invalid UTF8")
ErrAsBytes == MkErr("failed to serialise message")
ErrInterpolation == MkErr("interpolation failed: metadata value was null")
BackendErrs == {MkErr("backend: connection refused")}
\* ctx.Err() of a cancelled context, which the client returns when aborted.
ErrCanceled == MkErr("context canceled")

\* The ctx of a Process call: the engine's context for the message.
CallerCtx(done) == [kind |-> "caller", deadline |-> FALSE, done |-> done]
\* <-ctx.Done() has fired.
CtxDone(ctx) == ctx.kind = "caller" /\ ctx.done

\* msg.AsBytes()
AsBytes(m) ==
    IF m.structuredBad THEN [bytes |-> StrEmpty, err |-> ErrAsBytes]
    ELSE [bytes |-> m.payload, err |-> NilErr]

\* An interpolated string field of the configuration; "nil" when not set.
\*   static:  a literal text
\*   content: ${! content() }, the payload as it is
\*   topic:   ${! metadata("topic").not_null() }, fails without the key
NoTemplate == [kind |-> "nil", text |-> StrEmpty]
UserTemplates ==
    { NoTemplate,
      [kind |-> "static", text |-> StrAsk],
      [kind |-> "content", text |-> StrEmpty],
      [kind |-> "topic", text |-> StrEmpty] }
SystemTemplates ==
    { NoTemplate,
      [kind |-> "static", text |-> StrSys],
      [kind |-> "static", text |-> StrEmpty],
      [kind |-> "topic", text |-> StrEmpty] }

\* InterpolatedString.TryString(msg)
TryString(t, m) ==
    CASE t.kind = "static" -> [str |-> t.text, err |-> NilErr]
      [] t.kind = "content" ->
            IF AsBytes(m).err.nil
            THEN [str |-> AsBytes(m).bytes, err |-> NilErr]
            ELSE [str |-> StrEmpty, err |-> AsBytes(m).err]
      [] t.kind = "topic" ->
            IF m.meta.has THEN [str |-> m.meta.topic, err |-> NilErr]
            ELSE [str |-> StrEmpty, err |-> ErrInterpolation]

\* utf8.Valid(b), from byte i on.
RECURSIVE Utf8ValidFrom(_, _)
Utf8ValidFrom(b, i) ==
    IF i > Len(b) THEN TRUE
    ELSE IF b[i] < 128 THEN Utf8ValidFrom(b, i + 1)
    ELSE LET size == CASE b[i] \in 194..223 -> 2
                       [] b[i] \in 224..239 -> 3
                       [] b[i] \in 240..244 -> 4
                       [] OTHER -> 0
             lo == CASE b[i] = 224 -> 160
                     [] b[i] = 240 -> 144
                     [] OTHER -> 128
             hi == CASE b[i] = 237 -> 159
                     [] b[i] = 244 -> 143
                     [] OTHER -> 191
         IN /\ size # 0
            /\ i + size - 1 <= Len(b)
            /\ b[i + 1] \in lo..hi
            /\ size >= 3 => b[i + 2] \in 128..191
            /\ size = 4 => b[i + 3] \in 128..191
            /\ Utf8ValidFrom(b, i + size)

\* utf8.Valid(b)
Utf8Valid(b) == Utf8ValidFrom(b, 1)

\* The UTF-8 encoding of the code point r.
EncodeRune(r) ==
    IF r < 128 THEN <<r>>
    ELSE IF r < 2048 THEN <<192 + (r \div 64), 128 + (r % 64)>>
    ELSE IF r < 65536
         THEN <<224 + (r \div 4096), 128 + ((r \div 64) % 64), 128 + (r % 64)>>
         ELSE <<240 + (r \div 262144), 128 + ((r \div 4096) % 64),
                128 + ((r \div 64) % 64), 128 + (r % 64)>>

RECURSIVE EncodeRunes(_)
EncodeRunes(rs) ==
    IF rs = <<>> THEN <<>> ELSE EncodeRune(Head(rs)) \o EncodeRunes(Tail(rs))

\* A slip: every byte is taken for a code point of its own.
StringPerByteRune(b) == EncodeRunes(b)

\* string(b): the same bytes, as a string.
String(b) == b

\* []byte(s): the same bytes.
Bytes(s) == s

-----------------------------------------------------------------------------
(* ollamaCompletionProcessor: Process *)

\* The first statements of Process: sp is "" without a system_prompt field,
\* and the template's result, or its error, with one.
SystemPrompt(proc, m) ==
    IF proc.systemPrompt # NoTemplate
    THEN TryString(proc.systemPrompt, m)
    ELSE [str |-> StrEmpty, err |-> NilErr]

\* A slip: the payload is used as the prompt without the utf8.Valid check.
computePromptUnchecked(proc, m) ==
    IF proc.userPrompt # NoTemplate
    THEN TryString(proc.userPrompt, m)
    ELSE IF ~AsBytes(m).err.nil
         THEN [str |-> StrEmpty, err |-> AsBytes(m).err]
         ELSE [str |-> String(AsBytes(m).bytes), err |-> NilErr]

\* A slip: the payload is validated before the prompt field is looked at.
computePromptValidatesFirst(proc, m) ==
    IF ~AsBytes(m).err.nil
    THEN [str |-> StrEmpty, err |-> AsBytes(m).err]
    ELSE IF ~Utf8Valid(AsBytes(m).bytes)
         THEN [str |-> StrEmpty, err |-> ErrInvalidUTF8]
         ELSE IF proc.userPrompt # NoTemplate
              THEN TryString(proc.userPrompt, m)
              ELSE [str |-> String(AsBytes(m).bytes), err |-> NilErr]

\* computePrompt(msg)
computePrompt(proc, m) ==
    IF proc.userPrompt # NoTemplate
    THEN TryString(proc.userPrompt, m)
    ELSE IF ~AsBytes(m).err.nil
         THEN [str |-> StrEmpty, err |-> AsBytes(m).err]
         ELSE IF ~Utf8Valid(AsBytes(m).bytes)
              THEN [str |-> StrEmpty, err |-> ErrInvalidUTF8]
              ELSE [str |-> String(AsBytes(m).bytes), err |-> NilErr]

\* A slip: the system entry is appended whatever the system prompt is.
ChatRequestAlwaysSystem(proc, systemPrompt, userPrompt) ==
    [Model    |-> proc.model,
     Messages |-> <<[Role |-> "system", Content |-> systemPrompt],
                    [Role |-> "user", Content |-> userPrompt]>>,
     Stream   |-> FALSE]

\* The api.ChatRequest generateCompletion builds.
ChatRequest(proc, systemPrompt, userPrompt) ==
    [Model    |-> proc.model,
     Messages |-> (IF systemPrompt # StrEmpty
                   THEN <<[Role |-> "system", Content |-> systemPrompt]>>
                   ELSE <<>>)
                  \o <<[Role |-> "user", Content |-> userPrompt]>>,
     Stream   |-> FALSE]

NoRequest == [Model |-> "", Messages |-> <<>>, Stream |-> FALSE]

\* A slip: a new message is built from the text, without the metadata.
CopyWithBytesDropsMeta(m, g) ==
    [payload |-> Bytes(g), meta |-> NoMeta, structuredBad |-> FALSE]

\* m := msg.Copy(); m.SetBytes([]byte(g))
CopyWithBytes(m, g) == [m EXCEPT !.payload = Bytes(g), !.structuredBad = FALSE]

\* What Process returns: a batch (nil: <<>>) and an error.
Result(batch, e) == [batch |-> batch, err |-> e]
NoResult == Result(<<>>, NilErr)

Calls == {"c1", "c2"}

IdleCall ==
    [pc |-> "idle", msg |-> NoMsg, sp |-> StrEmpty, up |-> StrEmpty,
     req |-> NoRequest, backendCalls |-> 0, g |-> StrEmpty, nChunks |-> 0,
     last |-> StrEmpty, chatErr |-> NilErr, result |-> NoResult,
     chunks |-> <<>>,                \* the contents the backend delivered
     ctx |-> CallerCtx(FALSE)]       \* the ctx given to Process

\* The engine hands message m to Process on worker c.  Process resolves the
\* system prompt and the user prompt; if one fails it returns the error, and
\* otherwise generateCompletion builds the request and calls o.client.Chat.
Process(c, m) ==
    /\ call[c].pc \in {"idle", "done"}
    /\ msgsLeft > 0
    /\ msgsLeft' = msgsLeft - 1
    /\ LET sp == SystemPrompt(o, m)
           up == computePrompt(o, m)
       IN call' = [call EXCEPT ![c] =
            IF ~sp.err.nil
            THEN [IdleCall EXCEPT !.pc = "done", !.msg = m,
                                  !.result = Result(<<>>, sp.err)]
            ELSE IF ~up.err.nil
            THEN [IdleCall EXCEPT !.pc = "done", !.msg = m, !.sp = sp.str,
                                  !.result = Result(<<>>, up.err)]
            ELSE [IdleCall EXCEPT !.pc = "chat", !.msg = m, !.sp = sp.str,
                                  !.up = up.str,
                                  !.req = ChatRequest(o, sp.str, up.str),
                                  !.backendCalls = 1]]
    /\ UNCHANGED o
    /\ UNCHANGED cliVars

\* A slip: the backend is called with a context of its own.
ChatContextBackground(ctx) == Background

\* The context generateCompletion gives to o.client.Chat: its own ctx.
ChatContext(ctx) == ctx

\* The client has aborted the call: the context it was given is done.
ChatAborted(c) == CtxDone(ChatContext(call[c].ctx))

\* A slip: the callback collects the contents, g += resp.Message.Content
OnChatResponseConcat(g, content) == g \o content

\* The callback given to o.client.Chat: g = resp.Message.Content
OnChatResponse(g, content) == content

\* A slip: g is a variable of the processor, shared by the calls in flight.
ChatResponseShared(c, content) ==
    /\ call[c].pc = "chat"
    /\ ~ChatAborted(c)
    /\ call[c].nChunks < MaxChunks
    /\ call' = [d \in Calls |->
                  IF d = c
                  THEN [call[d] EXCEPT !.g = OnChatResponse(call[c].g, content),
                                       !.last = content,
                                       !.chunks = Append(@, content),
                                       !.nChunks = @ + 1]
                  ELSE IF call[d].pc = "chat"
                       THEN [call[d] EXCEPT !.g = OnChatResponse(call[c].g, content)]
                       ELSE call[d]]
    /\ UNCHANGED <<o, msgsLeft>>
    /\ UNCHANGED cliVars

\* The backend delivers a response; the callback stores its content in g.
ChatResponse(c, content) ==
    /\ call[c].pc = "chat"
    /\ ~ChatAborted(c)
    /\ call[c].nChunks < MaxChunks
    /\ call' = [call EXCEPT ![c].g = OnChatResponse(call[c].g, content),
                            ![c].last = content,
                            ![c].chunks = Append(@, content),
                            ![c].nChunks = @ + 1]
    /\ UNCHANGED <<o, msgsLeft>>
    /\ UNCHANGED cliVars

\* The engine cancels the context of call c while Process is suspended in
\* the backend call.
Cancel(c) ==
    /\ call[c].pc = "chat"
    /\ ~call[c].ctx.done
    /\ call' = [call EXCEPT ![c].ctx = CallerCtx(TRUE)]
    /\ UNCHANGED <<o, msgsLeft>>
    /\ UNCHANGED cliVars

\* A slip: the message is built and returned even when the call failed.
ProcessResultPartial(m, g, e) == Result(<<CopyWithBytes(m, g)>>, e)

\* What Process returns once generateCompletion has returned (g, e).
ProcessResult(m, g, e) ==
    IF ~e.nil THEN Result(<<>>, e) ELSE Result(<<CopyWithBytes(m, g)>>, NilErr)

\* A slip: a failed backend call is made a second time.
ChatReturnRetry(c, e) ==
    /\ call[c].pc = "chat"
    /\ ~ChatAborted(c)
    /\ IF ~e.nil /\ call[c].backendCalls < 2
       THEN call' = [call EXCEPT ![c].backendCalls = @ + 1]
       ELSE call' = [call EXCEPT ![c].pc = "done",
                                 ![c].chatErr = e,
                                 ![c].result = ProcessResult(call[c].msg,
                                                             call[c].g, e)]
    /\ UNCHANGED <<o, msgsLeft>>
    /\ UNCHANGED cliVars

\* o.client.Chat returns e; generateCompletion returns (g, e) and Process
\* returns the batch or the error.
ChatReturn(c, e) ==
    /\ call[c].pc = "chat"
    /\ ~ChatAborted(c)
    /\ call' = [call EXCEPT ![c].pc = "done",
                            ![c].chatErr = e,
                            ![c].result = ProcessResult(call[c].msg, call[c].g, e)]
    /\ UNCHANGED <<o, msgsLeft>>
    /\ UNCHANGED cliVars

\* The context given to o.client.Chat is done: the client aborts the request
\* and returns ctx.Err(); generateCompletion returns (g, ctx.Err()).
ChatCancelled(c) ==
    /\ call[c].pc = "chat"
    /\ ChatAborted(c)
    /\ call' = [call EXCEPT ![c].pc = "done",
                            ![c].chatErr = ErrCanceled,
                            ![c].result = ProcessResult(call[c].msg, call[c].g,
                                                        ErrCanceled)]
    /\ UNCHANGED <<o, msgsLeft>>
    /\ UNCHANGED cliVars

-----------------------------------------------------------------------------
(* The orchestrator's specification *)

\* The state when RunCLIToCode is entered: nothing captured, logger fresh.
InitCLI ==
    /\ pc = "running"
    /\ err = NilErr
    /\ exitCode = 0
    /\ fbLogger = NoLogger
    /\ rpLogger = NewTopicLogger
    /\ hookCalls = [loggerInit |-> 0, configParse |-> 0, streamStart |-> 0]
    /\ engineHookErrs = {}
    /\ fbLog = <<>>
    /\ stderrLog = <<>>
    /\ trace = <<>>
    /\ exitStatus = NotExited
    /\ closeCtx = NoCtx
    /\ sinkHangs \in BOOLEAN
    /\ lock = "free"
    /\ writer = [w \in Writers |-> "idle"]
    /\ writesLeft = MaxWrites

\* The processor is not running in the orchestrator's specification.
ProcIdle ==
    /\ o = [model |-> "llama3", userPrompt |-> NoTemplate, systemPrompt |-> NoTemplate]
    /\ call = [c \in Calls |-> IdleCall]
    /\ msgsLeft = 0

Init == InitCLI /\ ProcIdle

Hooks ==
    \/ \E l \in Loggers : OnLoggerInit(l)
    \/ \E r \in {NilErr} \cup InitOutputErrs : OnConfigParse(r)
    \/ \E s \in Summaries : OnStreamStart(s)

TeeLogger ==
    \/ \E w \in Writers : TeeWriteBegin(w)
    \/ \E w \in Writers : TeeWriteEnd(w)
    \/ \E w \in Writers : TeeWriteDrop(w)

Main ==
    \/ \E code \in ExitCodes, e \in {NilErr} \cup EngineErrs : RunCLIToCode(code, e)
    \/ ReportError
    \/ TriggerEventStopped
    \/ TriggerEventStoppedReturn
    \/ Close
    \/ \E e \in {NilErr} \cup CloseErrs : CloseReturn(e)
    \/ Exit

Next == Hooks \/ TeeLogger \/ Main

Spec == Init /\ [][Next]_vars

\* The main goroutine keeps running, and a writer finishes its write.
FairSpec ==
    /\ Init
    /\ [][Next]_vars
    /\ WF_vars(Main)
    /\ WF_vars(\E w \in Writers : TeeWriteEnd(w))

-----------------------------------------------------------------------------
(* The processor's specification *)

Models == {"llama3", "phi3"}

\* makeOllamaCompletionProcessor: the fields of the configuration.
InitProc ==
    /\ o \in [model : Models, userPrompt : UserTemplates,
              systemPrompt : SystemTemplates]
    /\ call = [c \in Calls |-> IdleCall]
    /\ msgsLeft = MaxMsgs

\* The orchestrator is not part of the processor's specification.
CLIIdle == InitCLI /\ sinkHangs = FALSE

InitP == InitProc /\ CLIIdle

Texts == {StrHiThere, StrOk}

\* The steps of the workers W of the engine, which hand messages of M to
\* Process, and of the backend and the engine's contexts.
ProcStep(W, M) ==
    \/ \E c \in W, m \in M : Process(c, m)
    \/ \E c \in W, t \in Texts : ChatResponse(c, t)
    \/ \E c \in W, e \in {NilErr} \cup BackendErrs : ChatReturn(c, e)
    \/ \E c \in W : Cancel(c)
    \/ \E c \in W : ChatCancelled(c)

\* One worker: the messages are processed one after the other.
NextProc == ProcStep({"c1"}, Messages)

SpecProc == InitP /\ [][NextProc]_vars

\* A client whose context is done returns.
FairSpecProc ==
    /\ InitP
    /\ [][NextProc]_vars
    /\ \A c \in Calls : WF_vars(ChatCancelled(c))

\* Two workers: Process runs concurrently on the same processor, on a valid
\* payload, an invalid payload and a message with metadata.
ConcMessages ==
    {m \in Messages : \/ m.payload = StrHello
                      \/ m.payload = <<255, 254>>}

InitConc ==
    /\ InitP
    /\ o.userPrompt \in {NoTemplate, [kind |-> "topic", text |-> StrEmpty]}
    /\ o.systemPrompt \in {NoTemplate, [kind |-> "static", text |-> StrSys]}

NextConc == ProcStep(Calls, ConcMessages)

SpecConc == InitConc /\ [][NextConc]_vars

-----------------------------------------------------------------------------
(* Properties of InitEnterpriseCLI *)

Occurs(ev) == \E i \in DOMAIN trace : trace[i] = ev
Count(ev) == Cardinality({i \in DOMAIN trace : trace[i] = ev})

\* The place of a shutdown step in the prescribed order.
ShutdownRank(ev) ==
    CASE ev = "RunCLIToCode.return"        -> 1
      [] ev = "report"                     -> 2
      [] ev = "TriggerEventStopped"        -> 3
      [] ev = "TriggerEventStopped.return" -> 4
      [] ev = "Close"                      -> 5
      [] ev = "Close.return"               -> 6
      [] ev \in {"os.Exit", "return"}      -> 7

AfterReport == pc \notin {"running", "returned"}
AfterStoppedCall == pc \notin {"running", "returned", "reported"}

\* C1: TriggerEventStopped is called exactly once in every run: never before
\* the report step is over, never twice, and once in every run that has got
\* past that call, whatever err and exitCode the engine returned and whatever
\* hooks it fired.
C1_TriggerStoppedExactlyOnce ==
    /\ Len(rpLogger.stopped) <= 1
    /\ AfterStoppedCall => Len(rpLogger.stopped) = 1
    /\ ~AfterStoppedCall => Len(rpLogger.stopped) = 0

\* A run that failed, ended, and fired hooks on its way.
C1_Witness ==
    /\ pc = "exited"
    /\ ~err.nil
    /\ hookCalls.loggerInit > 0
    /\ hookCalls.streamStart > 0
    /\ Len(rpLogger.stopped) = 1

\* C2: the shutdown steps occur in the order engine return, report,
\* TriggerEventStopped, Close, exit: each step is taken at most once, only
\* after the step before it has finished, and the logger has seen
\* TriggerEventStopped and Close only as often as the main goroutine called
\* them in that order.
C2_ShutdownOrder ==
    /\ \A i, j \in DOMAIN trace :
         i < j => ShutdownRank(trace[i]) < ShutdownRank(trace[j])
    /\ Occurs("report") => Occurs("RunCLIToCode.return")
    /\ Occurs("TriggerEventStopped") =>
         /\ Occurs("RunCLIToCode.return")
         /\ ~err.nil => Occurs("report")
    /\ Occurs("Close") => Occurs("TriggerEventStopped.return")
    /\ Occurs("os.Exit") \/ Occurs("return") => Occurs("Close.return")
    /\ Len(rpLogger.stopped) = Count("TriggerEventStopped")
    /\ rpLogger.closeCalls = Count("Close")
    /\ rpLogger.closed <=> Occurs("Close.return")
    /\ exitStatus # NotExited => Occurs("os.Exit")
    /\ pc \in FinalPc => Occurs("Close.return")

\* A failed run that has terminated the process after all six steps.
C2_Witness ==
    /\ pc = "exited"
    /\ trace = <<"RunCLIToCode.return", "report", "TriggerEventStopped",
                 "TriggerEventStopped.return", "Close", "Close.return", "os.Exit">>

\* C3 (as claimed): once the engine has returned, InitEnterpriseCLI reaches
\* its exit step, even if the secondary sink never finishes releasing.
C3_ShutdownTerminates == (pc = "returned") ~> (pc \in FinalPc)

\* C4 (as claimed): after the report step, whatever the outcome, the terminal
\* error has been reported through the fallback logger if the on-logger-init
\* hook fired, and on os.Stderr if not.
C4_ReportsWhateverOutcome ==
    AfterReport =>
        IF hookCalls.loggerInit > 0
        THEN fbLog = <<<<fbLogger, Error(err)>>>> /\ stderrLog = <<>>
        ELSE stderrLog = <<Error(err)>> /\ fbLog = <<>>

\* C4 (amended): after the report step, a non-nil terminal error has been
\* reported once, through the captured fallback logger if the on-logger-init
\* hook fired and on os.Stderr if not, never through both; a nil terminal
\* error has been reported through neither; nothing is reported earlier.
C4_ReportsNonNilError ==
    /\ AfterReport /\ ~err.nil =>
         IF hookCalls.loggerInit > 0
         THEN fbLog = <<<<fbLogger, Error(err)>>>> /\ stderrLog = <<>>
         ELSE stderrLog = <<Error(err)>> /\ fbLog = <<>>
    /\ AfterReport /\ err.nil => fbLog = <<>> /\ stderrLog = <<>>
    /\ ~AfterReport => fbLog = <<>> /\ stderrLog = <<>>

\* A failed run reported through the logger captured by the hook.
C4_Witness ==
    /\ pc = "reported"
    /\ ~err.nil
    /\ hookCalls.loggerInit > 0
    /\ fbLog = <<<<fbLogger, Error(err)>>>>

\* C5: the process terminates with exactly the engine's exit code when that
\* code is not 0 and returns normally when it is 0; before the exit step
\* the process has not terminated.
C5_ExitCodePropagated ==
    /\ pc = "exited" => exitCode # 0 /\ exitStatus = <<exitCode>>
    /\ pc = "done" => exitCode = 0 /\ exitStatus = NotExited
    /\ pc \notin FinalPc => exitStatus = NotExited

\* The engine returned a code above 1 with a nil error, initOutput and Close
\* failed, and the process exited with the engine's code.
C5_Witness ==
    /\ pc = "exited"
    /\ exitCode = MaxExitCode
    /\ err.nil
    /\ engineHookErrs # {}
    /\ ~rpLogger.closeErr.nil
    /\ exitStatus = <<MaxExitCode>>

\* C6 (as claimed): a failure of InitOutputFromParsed is never returned to
\* the engine as a failure of the on-config-parsed hook.
C6_InitOutputFailureNotPropagated == engineHookErrs \cap InitOutputErrs = {}

\* C7 (as claimed): once the fallback logger or the stream summary has been
\* captured, no later hook invocation replaces it.
C7_CapturedAtMostOnce ==
    [][/\ fbLogger # NoLogger => fbLogger' = fbLogger
       /\ rpLogger.streamSummary # NoSummary =>
            rpLogger'.streamSummary = rpLogger.streamSummary]_vars

\* The texts reported through the fallback logger and on os.Stderr.
Reported == {fbLog[i][2] : i \in DOMAIN fbLog} \cup
            {stderrLog[i] : i \in DOMAIN stderrLog}

\* C16: the error given to TriggerEventStopped is the error RunCLIToCode
\* returned: nil exactly when the engine returned nil, and otherwise the
\* error whose text was reported through the fallback logger or on
\* os.Stderr, whatever the exit code; the terminal event the sink receives
\* carries that error.
C16_StoppedGetsEngineError ==
    AfterStoppedCall =>
        /\ rpLogger.stopped = <<err>>
        /\ rpLogger.stopped[1].nil <=> err.nil
        /\ ~err.nil => Reported = {Error(rpLogger.stopped[1])}
        /\ err.nil => Reported = {}
        /\ rpLogger.sinkEvents \in {<<>>, <<err>>}
        /\ exitCode \in ExitCodes

\* The engine returned an error with exit code 0: TriggerEventStopped was
\* given that error, and the sink received it in the terminal event.
C16_Witness ==
    /\ pc = "stopped"
    /\ ~err.nil
    /\ exitCode = 0
    /\ rpLogger.stopped = <<err>>
    /\ rpLogger.sinkEvents = <<err>>
    /\ Reported = {Error(err)}

\* A lifecycle error has happened in this run: InitOutputFromParsed failed,
\* the on-config-parsed hook has not fired, or Close returned an error.
LifecycleError ==
    \/ engineHookErrs \cap InitOutputErrs # {}
    \/ rpLogger.output = "failed"
    \/ hookCalls.configParse = 0
    \/ ~rpLogger.closeErr.nil

\* C17: in a run with a lifecycle error TriggerEventStopped is still called
\* once and Close once, after TriggerEventStopped has returned; the error
\* Close returns is reported nowhere, and the run ends as the engine's exit
\* code says: with that code when it is not 0, by returning when it is 0.
C17_LifecycleErrorsDoNotBlockShutdown ==
    LifecycleError =>
        /\ Len(rpLogger.stopped) <= 1 /\ rpLogger.closeCalls <= 1
        /\ pc \in {"inClose", "closed"} \cup FinalPc =>
              /\ Len(rpLogger.stopped) = 1
              /\ rpLogger.closeCalls = 1
              /\ \E i, j \in DOMAIN trace :
                    /\ i < j
                    /\ trace[i] = "TriggerEventStopped.return"
                    /\ trace[j] = "Close"
        /\ ~rpLogger.closeErr.nil =>
              /\ pc \in {"closed"} \cup FinalPc
              /\ Error(rpLogger.closeErr) \notin Reported
        /\ pc = "exited" => exitCode # 0 /\ exitStatus = <<exitCode>>
        /\ pc = "done" => exitCode = 0 /\ exitStatus = NotExited

\* InitOutputFromParsed failed and Close returned an error in a run the
\* engine ended with code 0: both calls were made once and the function
\* has returned normally.
C17_Witness ==
    /\ pc = "done"
    /\ exitCode = 0
    /\ rpLogger.output = "failed"
    /\ ~rpLogger.closeErr.nil
    /\ Len(rpLogger.stopped) = 1
    /\ rpLogger.closeCalls = 1
    /\ exitStatus = NotExited

-----------------------------------------------------------------------------
(* Properties of Process *)

Started(c) == call[c].pc \in {"chat", "done"}

\* The message of call c has raw bytes that are not valid UTF-8.
InvalidPayload(c) ==
    /\ ~call[c].msg.structuredBad
    /\ ~Utf8Valid(call[c].msg.payload)

\* C9 (as claimed): without a prompt field, a message whose payload is not
\* valid UTF-8 makes Process fail with the invalid-UTF8 error, with no output
\* message and no call of the backend.
C9_InvalidPayloadFailsWithUTF8Error ==
    \A c \in Calls :
        Started(c) /\ o.userPrompt = NoTemplate /\ InvalidPayload(c) =>
            /\ call[c].pc = "done"
            /\ call[c].result = Result(<<>>, ErrInvalidUTF8)
            /\ call[c].backendCalls = 0

\* C9 (amended): without a prompt field, a message whose payload is not valid
\* UTF-8 makes Process fail with no output message and no call of the
\* backend; the error is the invalid-UTF8 error, unless the system_prompt
\* template failed on the message, and then it is that template's error.
C9_InvalidPayloadFails ==
    \A c \in Calls :
        Started(c) /\ o.userPrompt = NoTemplate /\ InvalidPayload(c) =>
            /\ call[c].pc = "done"
            /\ call[c].result.batch = <<>>
            /\ call[c].result.err =
                 IF SystemPrompt(o, call[c].msg).err.nil
                 THEN ErrInvalidUTF8
                 ELSE SystemPrompt(o, call[c].msg).err
            /\ call[c].backendCalls = 0
            /\ call[c].req = NoRequest

\* The payload FF FE without a prompt field: Process has failed with the
\* invalid-UTF8 error.
C9_Witness ==
    \E c \in Calls :
        /\ call[c].pc = "done"
        /\ o.userPrompt = NoTemplate
        /\ call[c].msg.payload = <<255, 254>>
        /\ call[c].result = Result(<<>>, ErrInvalidUTF8)
        /\ call[c].backendCalls = 0

\* C10: a Process call that failed, at the system prompt, at the user prompt
\* or in the backend call, has returned that step's error and no message; the
\* backend is called only when both prompts were resolved without error, with
\* the request built from them, and a call whose prompt failed never calls it.
C10_FailureReturnsNoOutput ==
    \A c \in Calls :
        LET sp == SystemPrompt(o, call[c].msg)
            up == computePrompt(o, call[c].msg)
        IN /\ call[c].pc = "done" /\ ~call[c].result.err.nil =>
                call[c].result.batch = <<>>
           /\ call[c].pc = "done" /\ ~sp.err.nil =>
                call[c].result = Result(<<>>, sp.err) /\ call[c].backendCalls = 0
           /\ call[c].pc = "done" /\ sp.err.nil /\ ~up.err.nil =>
                call[c].result = Result(<<>>, up.err) /\ call[c].backendCalls = 0
           /\ call[c].pc = "done" /\ ~call[c].chatErr.nil =>
                call[c].result = Result(<<>>, call[c].chatErr)
           /\ call[c].backendCalls > 0 =>
                /\ sp.err.nil /\ up.err.nil
                /\ call[c].sp = sp.str /\ call[c].up = up.str
                /\ call[c].req = ChatRequest(o, sp.str, up.str)

\* The backend call failed after a response had been delivered: Process has
\* returned the backend's error and no message.
C10_Witness ==
    \E c \in Calls :
        /\ call[c].pc = "done"
        /\ call[c].backendCalls = 1
        /\ call[c].last = StrHiThere
        /\ call[c].chatErr \in BackendErrs
        /\ call[c].result = Result(<<>>, call[c].chatErr)


\* The text the backend generated for call c: the content of the response it
\* delivered last, "" when it delivered none.
GeneratedText(c) ==
    IF call[c].chunks = <<>> THEN StrEmpty
    ELSE call[c].chunks[Len(call[c].chunks)]

\* C11: a Process call that succeeded has returned a batch of exactly one
\* message, which has the metadata of the input message and, as its payload,
\* the bytes of the text the backend generated for this call.
C11_SuccessReturnsCopyWithText ==
    \A c \in Calls :
        call[c].pc = "done" /\ call[c].result.err.nil =>
            /\ Len(call[c].result.batch) = 1
            /\ call[c].result.batch[1].meta = call[c].msg.meta
            /\ call[c].result.batch[1].payload = Bytes(GeneratedText(c))
            /\ ~call[c].result.batch[1].structuredBad
            /\ call[c].backendCalls = 1

\* A message with metadata was processed: the batch holds its copy, with the
\* metadata, and the generated text "hi there" as the payload.
C11_Witness ==
    \E c \in Calls :
        /\ call[c].pc = "done"
        /\ call[c].result.err.nil
        /\ call[c].msg.meta.has
        /\ call[c].msg.payload = StrHello
        /\ call[c].result.batch =
             <<[payload |-> StrHiThere, meta |-> call[c].msg.meta,
                structuredBad |-> FALSE]>>


\* The places of the entries with role r in the request of call c.
EntriesOf(c, r) ==
    {i \in DOMAIN call[c].req.Messages : call[c].req.Messages[i].Role = r}

\* C12: every chat request sent to the backend has no system entry when the
\* resolved system prompt is "", also when a configured template resolved to
\* "", and otherwise exactly one, first, with the system prompt as content;
\* it has exactly one user entry, the last entry, and no other entry.
C12_RequestEntries ==
    \A c \in Calls :
        call[c].backendCalls > 0 =>
            LET msgs == call[c].req.Messages
                sp == SystemPrompt(o, call[c].msg).str
            IN /\ EntriesOf(c, "user") = {Len(msgs)}
               /\ msgs[Len(msgs)].Content = call[c].up
               /\ EntriesOf(c, "system") = IF sp = StrEmpty THEN {} ELSE {1}
               /\ sp # StrEmpty => msgs[1].Content = sp /\ Len(msgs) = 2
               /\ sp = StrEmpty => Len(msgs) = 1
               /\ \A i \in DOMAIN msgs : msgs[i].Role \in {"system", "user"}

\* A configured system_prompt template that resolved to "": the request
\* sent to the backend has the user entry only.
C12_Witness ==
    \E c \in Calls :
        /\ call[c].pc = "chat"
        /\ o.systemPrompt = [kind |-> "static", text |-> StrEmpty]
        /\ call[c].req.Messages = <<[Role |-> "user", Content |-> call[c].up]>>


\* C13: with a prompt field, the user prompt of every message is the
\* template evaluated against the message, also when that is "", and a
\* failure is the template's; the payload is not validated and is not the
\* prompt: messages that differ in the payload only get the same prompt from
\* a template that does not read the content, valid UTF-8 or not.
C13_TemplateIsThePrompt ==
    /\ \A c \in Calls :
          (/\ Started(c)
           /\ o.userPrompt # NoTemplate
           /\ SystemPrompt(o, call[c].msg).err.nil) =>
              LET t == TryString(o.userPrompt, call[c].msg)
              IN /\ call[c].result.err # ErrInvalidUTF8
                 /\ t.err.nil =>
                      /\ call[c].backendCalls = 1
                      /\ call[c].up = t.str
                      /\ call[c].req.Messages[Len(call[c].req.Messages)] =
                           [Role |-> "user", Content |-> t.str]
                 /\ ~t.err.nil =>
                      /\ call[c].pc = "done"
                      /\ call[c].result = Result(<<>>, t.err)
                      /\ call[c].backendCalls = 0
    /\ o.userPrompt # NoTemplate =>
          \A m1, m2 \in Messages :
              /\ computePrompt(o, m1) = TryString(o.userPrompt, m1)
              /\ (m1.meta = m2.meta /\ o.userPrompt.kind # "content") =>
                    computePrompt(o, m1) = computePrompt(o, m2)

\* The payload FF FE, not valid UTF-8, with the prompt field "ask": the
\* backend is called with the user prompt "ask".
C13_Witness ==
    \E c \in Calls :
        /\ call[c].pc = "chat"
        /\ o.userPrompt = [kind |-> "static", text |-> StrAsk]
        /\ call[c].msg.payload = <<255, 254>>
        /\ call[c].up = StrAsk
        /\ call[c].backendCalls = 1


\* The code point encoded at byte i of b and the bytes it takes; a byte that
\* starts no well-formed sequence is the replacement code point U+FFFD, one
\* byte wide.
DecodeRune(b, i) ==
    LET cont(k) == i + k <= Len(b) /\ b[i + k] \in 128..191
        two == (b[i] - 192) * 64 + (b[i + 1] - 128)
        three == (b[i] - 224) * 4096 + (b[i + 1] - 128) * 64 + (b[i + 2] - 128)
        four == (b[i] - 240) * 262144 + (b[i + 1] - 128) * 4096
                + (b[i + 2] - 128) * 64 + (b[i + 3] - 128)
        bad == [rune |-> 65533, size |-> 1]
    IN IF b[i] < 128 THEN [rune |-> b[i], size |-> 1]
       ELSE IF b[i] \in 192..223 /\ cont(1)
            THEN IF two >= 128 THEN [rune |-> two, size |-> 2] ELSE bad
       ELSE IF b[i] \in 224..239 /\ cont(1) /\ cont(2)
            THEN IF three >= 2048 /\ three \notin 55296..57343
                 THEN [rune |-> three, size |-> 3] ELSE bad
       ELSE IF b[i] \in 240..247 /\ cont(1) /\ cont(2) /\ cont(3)
            THEN IF four \in 65536..1114111
                 THEN [rune |-> four, size |-> 4] ELSE bad
       ELSE bad

\* The text the bytes b encode, as code points, from byte i on.
RECURSIVE DecodeRunesFrom(_, _)
DecodeRunesFrom(b, i) ==
    IF i > Len(b) THEN <<>>
    ELSE <<DecodeRune(b, i).rune>> \o DecodeRunesFrom(b, i + DecodeRune(b, i).size)

DecodeRunes(b) == DecodeRunesFrom(b, 1)

\* b is the UTF-8 encoding of a text.
IsUtf8Text(b) == EncodeRunes(DecodeRunes(b)) = b

\* C14: without a prompt field, the user prompt of a message whose payload
\* is valid UTF-8 is the text the payload encodes: it decodes to the same
\* code points, encoding it gives the payload back, byte for byte, and it is
\* the content of the user entry of the request sent to the backend.
C14_PromptIsDecodedPayload ==
    \A c \in Calls :
        (/\ Started(c)
         /\ o.userPrompt = NoTemplate
         /\ ~call[c].msg.structuredBad
         /\ IsUtf8Text(call[c].msg.payload)
         /\ SystemPrompt(o, call[c].msg).err.nil) =>
            /\ call[c].backendCalls = 1
            /\ DecodeRunes(call[c].up) = DecodeRunes(call[c].msg.payload)
            /\ EncodeRunes(DecodeRunes(call[c].up)) = call[c].msg.payload
            /\ Bytes(call[c].up) = call[c].msg.payload
            /\ call[c].req.Messages[Len(call[c].req.Messages)] =
                 [Role |-> "user", Content |-> call[c].up]

\* The payload C3 A9, the encoding of U+00E9, without a prompt field: the
\* backend is called with a user prompt of that one code point.
C14_Witness ==
    \E c \in Calls :
        /\ call[c].pc = "chat"
        /\ o.userPrompt = NoTemplate
        /\ call[c].msg.payload = <<195, 169>>
        /\ DecodeRunes(call[c].up) = <<233>>
        /\ Bytes(call[c].up) = <<195, 169>>


\* What call c returns according to its own message and to what the backend
\* answered to its own request.
OwnOutcome(c) ==
    LET sp == SystemPrompt(o, call[c].msg)
        up == computePrompt(o, call[c].msg)
    IN IF ~sp.err.nil THEN Result(<<>>, sp.err)
       ELSE IF ~up.err.nil THEN Result(<<>>, up.err)
       ELSE IF ~call[c].chatErr.nil THEN Result(<<>>, call[c].chatErr)
       ELSE Result(<<[payload |-> GeneratedText(c), meta |-> call[c].msg.meta,
                      structuredBad |-> FALSE]>>, NilErr)

\* C15: in every step of concurrent Process calls the configuration of the
\* processor stays as it is, the step of one call (also its failure) leaves
\* the locals and the result of every other call as they are, and a call
\* that has returned has the outcome its own message and the backend's
\* answer to its own request give: never a text delivered to another call.
C15_CallsAreIndependent ==
    [][/\ o' = o
       /\ \A c, d \in Calls :
             (c # d /\ call'[c] # call[c]) => call'[d] = call[d]
       /\ \A c \in Calls :
             call'[c].pc = "done" => call'[c].result = OwnOutcome(c)']_vars

\* Two calls on the same processor were given different texts by the
\* backend: one failed in the backend call, the other returned its own text.
C15_Witness ==
    \E c, d \in Calls :
        /\ c # d
        /\ call[c].pc = "done" /\ call[d].pc = "done"
        /\ call[c].chatErr \in BackendErrs
        /\ call[c].chunks = <<StrHiThere>>
        /\ call[c].result = Result(<<>>, call[c].chatErr)
        /\ call[d].chunks = <<StrOk>>
        /\ call[d].result.err.nil
        /\ call[d].result.batch[1].payload = StrOk


\* C18: every request sent to the backend has the stream flag false and the
\* model of the configuration; generateCompletion has not returned while the
\* backend call is in progress; and the text it holds, and returns, is the
\* content of the response delivered last for this request, whatever was
\* delivered before: earlier contents are dropped, not concatenated.
C18_LastChunkWins ==
    \A c \in Calls :
        /\ call[c].backendCalls > 0 =>
              /\ call[c].req.Stream = FALSE
              /\ call[c].req.Model = o.model
        /\ call[c].pc = "chat" => call[c].result = NoResult
        /\ call[c].g = GeneratedText(c)
        /\ call[c].pc = "done" /\ call[c].result.err.nil =>
              call[c].result.batch[1].payload = Bytes(GeneratedText(c))

\* The backend delivered "hi there" and then "ok" for one request: the call
\* has returned "ok".
C18_Witness ==
    \E c \in Calls :
        /\ call[c].pc = "done"
        /\ call[c].chunks = <<StrHiThere, StrOk>>
        /\ call[c].req.Model = "phi3"
        /\ call[c].result.err.nil
        /\ call[c].result.batch[1].payload = StrOk


\* C19: a Process call calls the backend at most once; when that call
\* failed, Process has returned the error the backend call returned, as it
\* is, and no message, also when responses had been delivered before the
\* failure, and the backend was not called again.
C19_BackendCalledAtMostOnce ==
    \A c \in Calls :
        /\ call[c].backendCalls <= 1
        /\ call[c].pc = "chat" => call[c].backendCalls = 1
        /\ call[c].pc = "done" /\ ~call[c].chatErr.nil =>
              /\ call[c].backendCalls = 1
              /\ call[c].result.err = call[c].chatErr
              /\ call[c].result.batch = <<>>

\* The backend call failed after two responses had been delivered: Process
\* has returned the backend's error after one call of the backend.
C19_Witness ==
    \E c \in Calls :
        /\ call[c].pc = "done"
        /\ call[c].chatErr \in BackendErrs
        /\ Len(call[c].chunks) = 2
        /\ call[c].backendCalls = 1
        /\ call[c].result = Result(<<>>, call[c].chatErr)


\* C20: when the caller's context is cancelled while Process is suspended in
\* the backend call, the backend call is aborted: no response is delivered
\* to the call any more, Process eventually returns, and what it returns
\* is the context's error and no message, not a message built from a
\* response.
C20_CancellationAbortsCall ==
    /\ [](\A c \in Calls :
            call[c].pc = "done" /\ call[c].ctx.done =>
                call[c].result = Result(<<>>, ErrCanceled))
    /\ [][\A c \in Calls :
            call[c].pc = "chat" /\ call[c].ctx.done =>
                /\ call'[c].chunks = call[c].chunks
                /\ call'[c].g = call[c].g
                /\ call'[c].pc \in {"chat", "done"}]_vars
    /\ \A c \in Calls :
          (call[c].pc = "chat" /\ call[c].ctx.done)
              ~> (/\ call[c].pc = "done"
                  /\ ~call[c].result.err.nil
                  /\ call[c].result.batch = <<>>)

\* The context was cancelled after the backend had delivered a response:
\* Process has returned the context's error and no message.
C20_Witness ==
    \E c \in Calls :
        /\ call[c].pc = "done"
        /\ call[c].ctx.done
        /\ call[c].chunks = <<StrHiThere>>
        /\ call[c].result = Result(<<>>, ErrCanceled)

=============================================================================
